---- MODULE Spec2Model ----
(***************************************************************************)
(* The Game of Life with ageing cells (life.cpp): the generation           *)
(* transition computeNext, the step advance, and the driver                *)
(* main / start / setSpeed / runAnimation / restart.                       *)
(***************************************************************************)
EXTENDS Integers, Sequences, FiniteSets, TLC

(* ---------------------------------------------------------------- bounds *)

\* kMaxAge comes from life-constants.h; the model is parametric in it and is
\* checked with a small value.
kMaxAge == 2

\* Largest number of cells (rows * cols) of a colony read from a file.
MaxFileCells == 9

\* Largest number of cells (rows * cols) of a randomly seeded colony.
MaxRandCells == 4

\* Largest number of cells of a colony in the specification of the whole driver.
MaxDriverCells == 1

\* Generation steps per behaviour.
MaxSteps == 2

\* Runs (calls of start) per behaviour.
MaxRuns == 2

\* Events waiting in the event queue.
MaxQueue == 2

\* Largest number of rows and of columns of a colony seeded with a glider.
GliderDim == 6

\* Generation steps of a colony seeded with a glider.
GliderSteps == 4
ScratchSteps == 3

(* ----------------------------------------------------------------- grids *)

\* The shapes rows x cols, rows >= 0 and cols >= 0, of at most n cells; of the
\* shapes without cells, 0x0, 0x1 and 1x0 stand for all.
Shapes(n) ==
    {s \in (0..(n + 1)) \X (0..(n + 1)) :
        /\ s[1] * s[2] <= n
        /\ (s[1] * s[2] = 0 => s[1] + s[2] <= 1)}

Cells(rows, cols) == (0..(rows - 1)) \X (0..(cols - 1))

\* Grid<int>: its dimensions and its cells.
MkGrid(rows, cols, f) == [rows |-> rows, cols |-> cols, cell |-> f]

\* Grid::resize(nRows, nCols): the contents are discarded, every cell is 0.
Resize(rows, cols) == MkGrid(rows, cols, [p \in Cells(rows, cols) |-> 0])

\* Grid::inBounds(row, col).
InBounds(g, row, col) == row >= 0 /\ col >= 0 /\ row < g.rows /\ col < g.cols

\* Grid::get / operator[]: an access outside the grid raises an error in the
\* library (recorded by the variable oob); the value 0 stands for it here.
Get(g, row, col) == IF <<row, col>> \in DOMAIN g.cell THEN g.cell[<<row, col>>] ELSE 0

\* Grid::set / assignment through operator[].
Set(g, row, col, v) ==
    IF <<row, col>> \in DOMAIN g.cell
    THEN [g EXCEPT !.cell = [g.cell EXCEPT ![<<row, col>>] = v]]
    ELSE g

EmptyGrid == Resize(0, 0)

(* -------------------------------------------------------------- state *)

VARIABLES
    pc,        \* where the driver is: "start", "setSpeed", "manual", "wait",
               \* "compute", "assign", "repaint", "restart", "done"
    caller,    \* the loop that called advance: "manual" or "timer"
    adv,       \* the line the manual loop read for the step in progress
    current,   \* Grid<int> current (main)
    next,      \* Grid<int> next (main), the scratch grid
    i, j,      \* the loop indices of computeNext
    drawn,     \* the cells the display has been given by drawCellAt
    repaints,  \* number of display.repaint() calls
    steps,     \* number of generations that have replaced current
    signals,   \* number of advance signals consumed (timer events, entered lines)
    runs,      \* number of colonies initialized (calls of start)
    stops,     \* number of runs that have stopped (mouse press or "quit")
    queue,     \* the event queue waitForEvent reads
    timerOn,   \* a started GTimer exists
    ms,        \* the speed setSpeed returned
    oob        \* some grid or display access was outside the dimensions

vars == <<pc, caller, adv, current, next, i, j, drawn, repaints, steps, signals,
          runs, stops, queue, timerOn, ms, oob>>

(* ----------------------------------------------------- transition engine *)

\* Variant of isDirectionEmptyReads: the inBounds test is left out.
isDirectionEmptyReadsNoCheck(g, row, col, drow, dcol) ==
    IF drow = 0 /\ dcol = 0 THEN {} ELSE {<<row + drow, col + dcol>>}

\* The cells isDirectionEmpty indexes in current: none for the location itself
\* and none for a direction that leads outside the grid.
isDirectionEmptyReads(g, row, col, drow, dcol) ==
    IF drow = 0 /\ dcol = 0
    THEN {}
    ELSE IF InBounds(g, row + drow, col + dcol)
         THEN {<<row + drow, col + dcol>>}
         ELSE {}

\* isDirectionEmpty: true for the location itself and outside the grid, else
\* whether the cell in that direction is 0.
isDirectionEmpty(g, row, col, drow, dcol) ==
    \A p \in isDirectionEmptyReads(g, row, col, drow, dcol) : Get(g, p[1], p[2]) = 0

Directions == (-1..1) \X (-1..1)

\* Variant of numNeighbours: the location itself is counted too.
numNeighboursWithSelf(g, row, col) ==
    Cardinality({d \in Directions : Get(g, row + d[1], col + d[2]) # 0})

\* The count isNumNeighboursCorrect makes over the nine directions.
numNeighbours(g, row, col) ==
    Cardinality({d \in Directions : ~isDirectionEmpty(g, row, col, d[1], d[2])})

isNumNeighboursCorrect(g, row, col, neighbours) ==
    numNeighbours(g, row, col) = neighbours

isEmpty(g, row, col) == Get(g, row, col) = 0

\* Variant of NextCell: a surviving cell keeps its age.
NextCellNoAgeing(g, row, col) ==
    IF isNumNeighboursCorrect(g, row, col, 0) \/ isNumNeighboursCorrect(g, row, col, 1)
    THEN 0
    ELSE IF isNumNeighboursCorrect(g, row, col, 2)
         THEN Get(g, row, col)
         ELSE IF isNumNeighboursCorrect(g, row, col, 3)
              THEN (IF isEmpty(g, row, col) THEN 1 ELSE Get(g, row, col))
              ELSE 0

\* Variant of NextCell: a cell is born with two neighbours as well.
NextCellBirthOnTwo(g, row, col) ==
    IF isNumNeighboursCorrect(g, row, col, 0) \/ isNumNeighboursCorrect(g, row, col, 1)
    THEN 0
    ELSE IF isNumNeighboursCorrect(g, row, col, 2) \/ isNumNeighboursCorrect(g, row, col, 3)
         THEN (IF isEmpty(g, row, col) THEN 1 ELSE Get(g, row, col) + 1)
         ELSE 0

\* The value computeNext assigns to next[row][col].
NextCell(g, row, col) ==
    IF isNumNeighboursCorrect(g, row, col, 0) \/ isNumNeighboursCorrect(g, row, col, 1)
    THEN 0
    ELSE IF isNumNeighboursCorrect(g, row, col, 2)
         THEN (IF isEmpty(g, row, col) THEN 0 ELSE Get(g, row, col) + 1)
         ELSE IF isNumNeighboursCorrect(g, row, col, 3)
              THEN (IF isEmpty(g, row, col) THEN 1 ELSE Get(g, row, col) + 1)
              ELSE 0

\* The cells of g that computing next[row][col] indexes.
CellReads(g, row, col) ==
    UNION {isDirectionEmptyReads(g, row, col, d[1], d[2]) : d \in Directions}
        \cup (IF isNumNeighboursCorrect(g, row, col, 2) \/ isNumNeighboursCorrect(g, row, col, 3)
              THEN {<<row, col>>}
              ELSE {})

\* Variant of DrawnValue: the cell of current is drawn.
DrawnValueCurrent(cur, nxt, row, col) == Get(cur, row, col)

\* The value computeNext hands to display.drawCellAt for location (row, col).
DrawnValue(cur, nxt, row, col) == Get(nxt, row, col)

\* Variant of NextDims: rows and columns are exchanged.
NextDimsSwapped(cur) == <<cur.cols, cur.rows>>

\* The dimensions computeNext gives next.
NextDims(cur) == <<cur.rows, cur.cols>>

\* Variant of CallAdvance: next.resize is left out.
CallAdvanceNoResize(from) ==
    /\ caller' = from
    /\ signals' = signals + 1
    /\ next' = next
    /\ i' = 0
    /\ j' = 0
    /\ pc' = IF current.rows > 0 /\ current.cols > 0 THEN "compute" ELSE "assign"
    /\ UNCHANGED <<current, drawn, repaints, steps, runs, stops, timerOn, ms, oob>>

\* The call of advance, up to the first cell of computeNext: next is resized.
CallAdvance(from) ==
    /\ caller' = from
    /\ signals' = signals + 1
    /\ next' = Resize(NextDims(current)[1], NextDims(current)[2])
    /\ i' = 0
    /\ j' = 0
    /\ pc' = IF current.rows > 0 /\ current.cols > 0 THEN "compute" ELSE "assign"
    /\ UNCHANGED <<current, drawn, repaints, steps, runs, stops, timerOn, ms, oob>>

\* A call of advance, while the behaviour has generation steps left.
BeginAdvance(from) ==
    /\ steps < MaxSteps
    /\ CallAdvance(from)

\* Variant of ComputeCell: the new value is written into current as well, so
\* later cells are evaluated against cells already updated.
ComputeCellInPlace ==
    /\ pc = "compute"
    /\ LET v == NextCell(current, i, j)
           nxt == Set(next, i, j, v)
       IN /\ next' = nxt
          /\ current' = Set(current, i, j, v)
          /\ drawn' = Set(drawn, i, j, DrawnValue(current, nxt, i, j))
          /\ oob' = oob
    /\ IF j + 1 < current.cols
       THEN i' = i /\ j' = j + 1 /\ pc' = "compute"
       ELSE IF i + 1 < current.rows
            THEN i' = i + 1 /\ j' = 0 /\ pc' = "compute"
            ELSE i' = 0 /\ j' = 0 /\ pc' = "assign"
    /\ UNCHANGED <<caller, adv, repaints, steps, signals, runs, stops, queue, timerOn, ms>>

\* One iteration of the inner loop of computeNext: next[i][j] is assigned and
\* handed to the display.
ComputeCell ==
    /\ pc = "compute"
    /\ LET v == NextCell(current, i, j)
           nxt == Set(next, i, j, v)
       IN /\ next' = nxt
          /\ drawn' = Set(drawn, i, j, DrawnValue(current, nxt, i, j))
          /\ oob' = (\/ oob
                     \/ ~(CellReads(current, i, j) \subseteq DOMAIN current.cell)
                     \/ <<i, j>> \notin DOMAIN next.cell
                     \/ <<i, j>> \notin DOMAIN drawn.cell)
    /\ IF j + 1 < current.cols
       THEN i' = i /\ j' = j + 1 /\ pc' = "compute"
       ELSE IF i + 1 < current.rows
            THEN i' = i + 1 /\ j' = 0 /\ pc' = "compute"
            ELSE i' = 0 /\ j' = 0 /\ pc' = "assign"
    /\ UNCHANGED <<caller, adv, current, repaints, steps, signals, runs, stops, queue,
                   timerOn, ms>>

\* Variant of AssignCurrent: the assignment current = next is left out.
AssignCurrentSkipped ==
    /\ pc = "assign"
    /\ steps' = steps + 1
    /\ pc' = "repaint"
    /\ UNCHANGED <<caller, adv, current, next, i, j, drawn, repaints, signals, runs, stops,
                   queue, timerOn, ms, oob>>

\* advance, after computeNext: current = next.
AssignCurrent ==
    /\ pc = "assign"
    /\ current' = next
    /\ steps' = steps + 1
    /\ pc' = "repaint"
    /\ UNCHANGED <<caller, adv, next, i, j, drawn, repaints, signals, runs, stops, queue,
                   timerOn, ms, oob>>

\* advance, last statement: display.repaint(), then back to the calling loop.
Repaint ==
    /\ pc = "repaint"
    /\ repaints' = repaints + 1
    /\ pc' = IF caller = "manual" THEN "manual" ELSE "wait"
    /\ adv' = ""
    /\ UNCHANGED <<caller, current, next, i, j, drawn, steps, signals, runs, stops,
                   queue, timerOn, ms, oob>>

(* ---------------------------------------------------------------- driver *)

\* The colonies fileInitialize builds: '-' gives 0, any other character 1.
FileGrids(n) ==
    UNION {{MkGrid(s[1], s[2], f) : f \in [Cells(s[1], s[2]) -> {0, 1}]} : s \in Shapes(n)}

\* The colonies randomInitialize builds: 0, or an age in 1..kMaxAge.
RandomGrids(n) ==
    UNION {{MkGrid(s[1], s[2], f) : f \in [Cells(s[1], s[2]) -> {0} \cup (1..kMaxAge)]} :
              s \in Shapes(n) \ {<<0, 0>>}}

\* initialize: the colony is seeded randomly or read from a file, the display
\* takes its dimensions, is given every cell and is repainted.
Initialize(grids) ==
    /\ runs < MaxRuns
    /\ \E g \in grids :
          /\ current' = g
          /\ drawn' = g
    /\ repaints' = repaints + 1
    /\ runs' = runs + 1

randomInitialize == Initialize(RandomGrids(MaxDriverCells))

fileInitialize == Initialize(FileGrids(MaxDriverCells))

\* start, first statement: initialize; then setSpeed is entered (ms = 0) and
\* asks for the choice.
StartRandom ==
    /\ pc = "start"
    /\ randomInitialize
    /\ ms' = 0
    /\ pc' = "setSpeed"
    /\ UNCHANGED <<caller, adv, next, i, j, steps, signals, stops, queue, timerOn, oob>>

StartFile ==
    /\ pc = "start"
    /\ fileInitialize
    /\ ms' = 0
    /\ pc' = "setSpeed"
    /\ UNCHANGED <<caller, adv, next, i, j, steps, signals, stops, queue, timerOn, oob>>

\* The integers the user may enter at "Your choice: ".
Choices == 0..5

\* Variant of AfterSetSpeed: runAnimation is entered whatever ms is.
AfterSetSpeedAlwaysRun(speed) == "wait"

\* start after setSpeed returned: runAnimation is entered when ms != 0 only.
AfterSetSpeed(speed) == IF speed # 0 THEN "wait" ELSE "restart"

\* setSpeed, choices 1, 2 and 3: ms is set and returned, start calls
\* runAnimation, which creates and starts the timer.
ChooseSpeed(choice) ==
    /\ pc = "setSpeed"
    /\ choice \in {1, 2, 3}
    /\ ms' = (IF choice = 1 THEN 10 ELSE IF choice = 2 THEN 100 ELSE 1000)
    /\ pc' = AfterSetSpeed(ms')
    /\ timerOn' = (pc' = "wait")
    /\ UNCHANGED <<caller, adv, current, next, i, j, drawn, repaints, steps, signals, runs,
                   stops, queue, oob>>

\* setSpeed, choice 4: the loop that asks for a line before each generation.
ChooseManual(choice) ==
    /\ pc = "setSpeed"
    /\ choice = 4
    /\ pc' = "manual"
    /\ UNCHANGED <<caller, adv, current, next, i, j, drawn, repaints, steps, signals, runs,
                   stops, queue, timerOn, ms, oob>>

\* Variant of ChooseInvalid: a choice outside 1..4 advances the colony once.
ChooseInvalidAdvances(choice) ==
    /\ pc = "setSpeed"
    /\ choice \notin {1, 2, 3, 4}
    /\ adv' = adv
    /\ BeginAdvance("manual")
    /\ UNCHANGED queue

\* setSpeed, any other choice: a message, and the question is asked again.
ChooseInvalid(choice) ==
    /\ pc = "setSpeed"
    /\ choice \notin {1, 2, 3, 4}
    /\ UNCHANGED vars

\* The lines the user may enter.
Lines == {"quit", "", "yes", "no"}

\* Variant of isQuit: no line ends the loop.
isQuitNever(line) == FALSE

\* The test of the manual loop for the line that ends it.
isQuit(line) == line = "quit"

\* The manual loop, a line other than "quit": advance.
ManualAdvance(line) ==
    /\ pc = "manual"
    /\ ~isQuit(line)
    /\ adv' = line
    /\ BeginAdvance("manual")
    /\ UNCHANGED queue

\* The manual loop, "quit": setSpeed returns 0 and start returns without
\* runAnimation; main goes on to restart.
ManualQuit(line) ==
    /\ pc = "manual"
    /\ isQuit(line)
    /\ stops' = stops + 1
    /\ pc' = AfterSetSpeed(ms)
    /\ timerOn' = (pc' = "wait")
    /\ UNCHANGED <<caller, adv, current, next, i, j, drawn, repaints, steps, signals, runs,
                   queue, ms, oob>>

\* The events waitForEvent(TIMER_EVENT + MOUSE_EVENT) can return.
Events == {"TIMER_TICKED", "MOUSE_PRESSED", "MOUSE_RELEASED"}

getEventClass(event) == IF event = "TIMER_TICKED" THEN "TIMER_EVENT" ELSE "MOUSE_EVENT"

\* runAnimation: a timer event is dequeued, advance.
TimerEvent ==
    /\ pc = "wait"
    /\ queue # <<>>
    /\ getEventClass(Head(queue)) = "TIMER_EVENT"
    /\ queue' = Tail(queue)
    /\ adv' = adv
    /\ BeginAdvance("timer")

\* Variant of isMousePressed: every mouse event ends the loop.
isMousePressedAny(event) == TRUE

\* The test of runAnimation for the event that ends the loop.
isMousePressed(event) == event = "MOUSE_PRESSED"

\* Variant of MousePressed: a mouse press at the head of the queue ends the
\* loop at once, also while a step of the loop is being computed.
MousePressedPreempting ==
    /\ pc = "wait" \/ (caller = "timer" /\ pc \in {"compute", "assign", "repaint"})
    /\ queue # <<>>
    /\ getEventClass(Head(queue)) # "TIMER_EVENT"
    /\ isMousePressed(Head(queue))
    /\ queue' = Tail(queue)
    /\ timerOn' = FALSE
    /\ stops' = stops + 1
    /\ pc' = "restart"
    /\ UNCHANGED <<caller, adv, current, next, i, j, drawn, repaints, steps, signals, runs,
                   ms, oob>>

\* runAnimation: a mouse press is dequeued, the loop ends, the timer is
\* stopped, start returns and main goes on to restart.
MousePressed ==
    /\ pc = "wait"
    /\ queue # <<>>
    /\ getEventClass(Head(queue)) # "TIMER_EVENT"
    /\ isMousePressed(Head(queue))
    /\ queue' = Tail(queue)
    /\ timerOn' = FALSE
    /\ stops' = stops + 1
    /\ pc' = "restart"
    /\ UNCHANGED <<caller, adv, current, next, i, j, drawn, repaints, steps, signals, runs,
                   ms, oob>>

\* runAnimation: any other mouse event is dequeued and nothing is done.
OtherEvent ==
    /\ pc = "wait"
    /\ queue # <<>>
    /\ getEventClass(Head(queue)) # "TIMER_EVENT"
    /\ ~isMousePressed(Head(queue))
    /\ queue' = Tail(queue)
    /\ UNCHANGED <<pc, caller, adv, current, next, i, j, drawn, repaints, steps, signals,
                   runs, stops, timerOn, ms, oob>>

\* The started timer posts a timer event.
TimerTick ==
    /\ timerOn
    /\ Len(queue) < MaxQueue
    /\ queue' = Append(queue, "TIMER_TICKED")
    /\ UNCHANGED <<pc, caller, adv, current, next, i, j, drawn, repaints, steps, signals,
                   runs, stops, timerOn, ms, oob>>

\* The user acts on the window with the mouse: the event is posted.
MouseInput(event) ==
    /\ pc \notin {"start", "done"}
    /\ getEventClass(event) = "MOUSE_EVENT"
    /\ Len(queue) < MaxQueue
    /\ queue' = Append(queue, event)
    /\ UNCHANGED <<pc, caller, adv, current, next, i, j, drawn, repaints, steps, signals,
                   runs, stops, timerOn, ms, oob>>

\* restart: "yes" starts another run, "no" ends the program, anything else
\* asks again.
RestartYes(run) ==
    /\ pc = "restart"
    /\ run = "yes"
    /\ pc' = "start"
    /\ UNCHANGED <<caller, adv, current, next, i, j, drawn, repaints, steps, signals, runs,
                   stops, queue, timerOn, ms, oob>>

RestartNo(run) ==
    /\ pc = "restart"
    /\ run = "no"
    /\ pc' = "done"
    /\ UNCHANGED <<caller, adv, current, next, i, j, drawn, repaints, steps, signals, runs,
                   stops, queue, timerOn, ms, oob>>

RestartOther(run) ==
    /\ pc = "restart"
    /\ run \notin {"yes", "no"}
    /\ UNCHANGED vars

(* -------------------------------------------------------- specifications *)

\* main: the display and two empty grids exist, start is about to be called.
Init ==
    /\ pc = "start"
    /\ caller = "manual"
    /\ adv = ""
    /\ current = EmptyGrid
    /\ next = EmptyGrid
    /\ i = 0
    /\ j = 0
    /\ drawn = EmptyGrid
    /\ repaints = 0
    /\ steps = 0
    /\ signals = 0
    /\ runs = 0
    /\ stops = 0
    /\ queue = <<>>
    /\ timerOn = FALSE
    /\ ms = 0
    /\ oob = FALSE

Next ==
    \/ StartRandom
    \/ StartFile
    \/ \E choice \in Choices : ChooseSpeed(choice)
    \/ \E choice \in Choices : ChooseManual(choice)
    \/ \E choice \in Choices : ChooseInvalid(choice)
    \/ \E line \in Lines : ManualAdvance(line)
    \/ \E line \in Lines : ManualQuit(line)
    \/ TimerEvent
    \/ MousePressed
    \/ OtherEvent
    \/ TimerTick
    \/ \E event \in Events : MouseInput(event)
    \/ ComputeCell
    \/ AssignCurrent
    \/ Repaint
    \/ \E run \in Lines : RestartYes(run)
    \/ \E run \in Lines : RestartNo(run)
    \/ \E run \in Lines : RestartOther(run)

\* The whole program.
Spec == Init /\ [][Next]_vars

\* The transition engine alone: a colony of either kind has been initialized,
\* choice 4 has been made, and every line entered is the empty line.
EngineInit ==
    /\ pc = "manual"
    /\ caller = "manual"
    /\ adv = ""
    /\ current \in FileGrids(MaxFileCells) \cup RandomGrids(MaxRandCells)
    /\ next = EmptyGrid
    /\ i = 0
    /\ j = 0
    /\ drawn = current
    /\ repaints = 1
    /\ steps = 0
    /\ signals = 0
    /\ runs = 1
    /\ stops = 0
    /\ queue = <<>>
    /\ timerOn = FALSE
    /\ ms = 0
    /\ oob = FALSE

EngineNext ==
    \/ \E line \in {""} : ManualAdvance(line)
    \/ ComputeCell
    \/ AssignCurrent
    \/ Repaint

EngineSpec == EngineInit /\ [][EngineNext]_vars

\* The locations of the glider whose 3x3 box has its upper left corner at (r, c).
GliderAt(r, c) ==
    {<<r, c + 1>>, <<r + 1, c + 2>>, <<r + 2, c>>, <<r + 2, c + 1>>, <<r + 2, c + 2>>}

\* The colonies fileInitialize builds from a file that holds one glider, one
\* location away from the upper and left edges; in a grid of 6 rows and 6
\* columns or more the glider is still one location away from the lower and
\* right edges after four generations.
GliderGrids ==
    {MkGrid(s[1], s[2], [p \in Cells(s[1], s[2]) |-> IF p \in GliderAt(1, 1) THEN 1 ELSE 0]) :
        s \in (6..GliderDim) \X (6..GliderDim)}

\* The manual loop on a glider colony, a line other than "quit": advance.
GliderAdvance(line) ==
    /\ pc = "manual"
    /\ ~isQuit(line)
    /\ steps < GliderSteps
    /\ adv' = line
    /\ CallAdvance("manual")
    /\ UNCHANGED queue

\* A glider colony has been read from a file, choice 4 has been made, and
\* every line entered is the empty line.
GliderInit ==
    /\ pc = "manual"
    /\ caller = "manual"
    /\ adv = ""
    /\ current \in GliderGrids
    /\ next = EmptyGrid
    /\ i = 0
    /\ j = 0
    /\ drawn = current
    /\ repaints = 1
    /\ steps = 0
    /\ signals = 0
    /\ runs = 1
    /\ stops = 0
    /\ queue = <<>>
    /\ timerOn = FALSE
    /\ ms = 0
    /\ oob = FALSE

GliderNext ==
    \/ \E line \in {""} : GliderAdvance(line)
    \/ ComputeCell
    \/ AssignCurrent
    \/ Repaint

GliderSpec == GliderInit /\ [][GliderNext]_vars

(* ---------------------------------------------------------------- claims *)

Abs(x) == IF x < 0 THEN -x ELSE x

\* The cells of g among the eight positions around (row, col) that hold a
\* value > 0.
AliveNeighbours(g, row, col) ==
    Cardinality({p \in DOMAIN g.cell :
                    /\ p # <<row, col>>
                    /\ Abs(p[1] - row) <= 1
                    /\ Abs(p[2] - col) <= 1
                    /\ g.cell[p] > 0})

\* The rule table: the next value of a cell of the given age with n alive
\* neighbours.
RuleTable(age, n) ==
    IF n <= 1 THEN 0
    ELSE IF n = 2 THEN (IF age = 0 THEN 0 ELSE age + 1)
    ELSE IF n = 3 THEN (IF age = 0 THEN 1 ELSE age + 1)
    ELSE 0

\* Location p comes before location q in the order of computeNext's loops.
Before(p, q) == p[1] < q[1] \/ (p[1] = q[1] /\ p[2] < q[2])

\* Every cell of g evaluated against g itself, in no particular order.
Image(g) ==
    MkGrid(g.rows, g.cols, [p \in Cells(g.rows, g.cols) |-> NextCell(g, p[1], p[2])])

Dims(g) == <<g.rows, g.cols>>

InAdvance == pc \in {"compute", "assign", "repaint"}

\* C1: when computeNext has finished, every cell whose current age is below
\* kMaxAge holds in next the rule table's value for its current age and the
\* number of alive in-bounds cells around it.
C1_RuleFidelity ==
    pc = "assign" =>
        \A p \in DOMAIN current.cell :
            current.cell[p] < kMaxAge =>
                Get(next, p[1], p[2]) =
                    RuleTable(current.cell[p], AliveNeighbours(current, p[1], p[2]))

\* C1 witness: one computeNext in which a young cell survives with three
\* neighbours, an alive cell dies of overcrowding and a dead cell is born.
C1_Witness ==
    /\ pc = "assign"
    /\ \E p \in DOMAIN current.cell :
          /\ current.cell[p] > 0
          /\ current.cell[p] < kMaxAge
          /\ AliveNeighbours(current, p[1], p[2]) = 3
          /\ next.cell[p] = current.cell[p] + 1
    /\ \E p \in DOMAIN current.cell :
          /\ current.cell[p] > 0
          /\ AliveNeighbours(current, p[1], p[2]) >= 4
          /\ next.cell[p] = 0
    /\ \E p \in DOMAIN current.cell :
          /\ current.cell[p] = 0
          /\ AliveNeighbours(current, p[1], p[2]) = 3
          /\ next.cell[p] = 1

\* C2: every cell of current and of next holds an age in 0..kMaxAge.
C2_AgeCapped ==
    /\ \A p \in DOMAIN current.cell : current.cell[p] \in 0..kMaxAge
    /\ \A p \in DOMAIN next.cell : next.cell[p] \in 0..kMaxAge

\* C3: computeNext never changes current, every cell it has written holds the
\* value computed from current as it was when the call began, and the grid it
\* ends with is the one obtained by evaluating the cells in any order.
C3_Simultaneity ==
    /\ [](pc = "compute" =>
            \A p \in DOMAIN current.cell :
                Before(p, <<i, j>>) => Get(next, p[1], p[2]) = NextCell(current, p[1], p[2]))
    /\ [](pc = "assign" => next = Image(current))
    /\ [][pc = "compute" => current' = current]_vars

\* C3 witness: computeNext has finished on a grid where a cell that stays
\* alive has an earlier neighbour that changed between dead and alive.
C3_Witness ==
    /\ pc = "assign"
    /\ \E p \in DOMAIN current.cell, q \in DOMAIN current.cell :
          /\ Before(q, p)
          /\ Abs(p[1] - q[1]) <= 1
          /\ Abs(p[2] - q[2]) <= 1
          /\ (current.cell[q] = 0) # (next.cell[q] = 0)
          /\ current.cell[p] > 0
          /\ next.cell[p] > 0

\* C4: while the timer loop waits and a mouse press is in the event queue, the
\* driver begins no further generation step.
C4_NoStepAfterPress ==
    [][(pc = "wait" /\ \E k \in 1..Len(queue) : queue[k] = "MOUSE_PRESSED")
          => pc' \notin {"compute", "assign"}]_vars

\* C5: no access of computeNext is outside the dimensions, the count made for
\* a cell is the number of alive cells inside the grid around it, and the
\* 1x1 colony with one cell of age 1 becomes the 1x1 colony with a dead cell.
C5_EdgeHandling ==
    /\ ~oob
    /\ \A p \in DOMAIN current.cell :
          numNeighbours(current, p[1], p[2]) = AliveNeighbours(current, p[1], p[2])
    /\ (pc = "assign" /\ current = MkGrid(1, 1, [p \in Cells(1, 1) |-> 1]))
          => next = MkGrid(1, 1, [p \in Cells(1, 1) |-> 0])

\* C5 witness: computeNext has finished on the 1x1 colony with one alive cell.
C5_Witness ==
    /\ pc = "assign"
    /\ current = MkGrid(1, 1, [p \in Cells(1, 1) |-> 1])
    /\ next = MkGrid(1, 1, [p \in Cells(1, 1) |-> 0])

\* C5 witness of the edges: a corner cell with three alive neighbours in a
\* one-cell-wide margin has been computed.
C5_CornerWitness ==
    /\ pc = "assign"
    /\ current.rows >= 2
    /\ current.cols >= 2
    /\ current.cell[<<0, 0>>] = 0
    /\ numNeighbours(current, 0, 0) = 3
    /\ next.cell[<<0, 0>>] = 1

C7_ManualMode ==
    /\ []((caller = "manual" /\ pc \in {"manual", "compute", "assign", "repaint"}) =>
            signals = steps + (IF pc \in {"compute", "assign"} THEN 1 ELSE 0))
    /\ [][pc = "manual" =>
            \/ /\ pc' = "manual"
               /\ UNCHANGED <<current, steps, signals, repaints, stops, timerOn>>
            \/ /\ pc' \in {"compute", "assign"}
               /\ adv' # "quit"
               /\ caller' = "manual"
               /\ signals' = signals + 1
               /\ UNCHANGED <<current, steps, repaints, stops, timerOn>>
            \/ /\ pc' = "restart"
               /\ ~timerOn'
               /\ stops' = stops + 1
               /\ UNCHANGED <<current, steps, signals, repaints>>]_vars
    /\ [][(caller = "manual" /\ InAdvance) =>
            /\ pc' \in {"compute", "assign", "repaint", "manual"}
            /\ steps' \in {steps, steps + 1}
            /\ (steps' # steps => (pc = "assign" /\ pc' = "repaint"))
            /\ (pc' = "manual" => pc = "repaint")]_vars

\* C7 witness: two lines have given two steps in the manual loop, and "quit"
\* has then ended the run.
C7_Witness ==
    /\ pc = "restart"
    /\ caller = "manual"
    /\ runs = 1
    /\ ms = 0
    /\ steps = 2
    /\ signals = 2
    /\ ~timerOn

\* C8 as claimed: once a run has stopped, no generation step is performed.
C8_StoppedForever ==
    [][stops > 0 => steps' = steps]_vars

\* C8 as amended: a run that has stopped performs no further step; the driver
\* then only asks whether to run another colony, a step is performed again
\* only in a new run started by the answer "yes", and after "no" nothing
\* changes any more.
C8_StoppedUntilRestart ==
    /\ [](pc \in {"setSpeed", "manual", "wait", "compute", "assign", "repaint"}
            => stops = runs - 1)
    /\ [](pc \in {"restart", "done"} => stops = runs)
    /\ [][steps' # steps => stops < runs]_vars
    /\ [][pc = "restart" =>
            (pc' \in {"restart", "start", "done"} /\ UNCHANGED <<current, steps, repaints>>)]_vars
    /\ [][pc = "done" => UNCHANGED vars]_vars

\* C8 witness: a second run, started after the first one stopped, has
\* performed a step.
C8_Witness ==
    /\ runs = 2
    /\ stops = 1
    /\ steps > 0
    /\ pc = "repaint"

\* C9 as claimed: the display is repainted once for every step and never
\* without one.
C9_RepaintOnlyAfterStep ==
    repaints = steps - (IF pc = "repaint" THEN 1 ELSE 0)

\* C9 as amended: apart from the one repaint with which each initialization
\* shows the initial colony, the display is repainted exactly once for every
\* step, after current has been replaced, and it then holds the value of
\* current in every cell.
C9_OneRepaintPerStep ==
    /\ [](repaints = runs + steps - (IF pc = "repaint" THEN 1 ELSE 0))
    /\ [](pc = "repaint" => drawn = current)
    /\ [][repaints' # repaints =>
            /\ repaints' = repaints + 1
            /\ pc \in {"repaint", "start"}
            /\ drawn' = current']_vars

\* C9 witness: a step of the timer loop is about to repaint a colony whose only
\* cell has just died.
C9_Witness ==
    /\ pc = "repaint"
    /\ caller = "timer"
    /\ Dims(current) = <<1, 1>>
    /\ current.cell[<<0, 0>>] = 0
    /\ drawn = current
    /\ repaints = runs + steps - 1

\* C10: next has the dimensions of current whenever computeNext has resized
\* it, and the dimensions of current are those the display was given at
\* initialization and never change.
C10_DimensionsPreserved ==
    /\ [](InAdvance => Dims(next) = Dims(current))
    /\ [](Dims(current) = Dims(drawn))
    /\ [][Dims(current') = Dims(current)]_vars

\* C10 witness: two steps have been performed on a colony that is not square.
C10_Witness ==
    /\ pc = "repaint"
    /\ steps = 2
    /\ current.rows # current.cols
    /\ current.rows * current.cols > 0
    /\ \E p \in DOMAIN current.cell : current.cell[p] > 0

\* The four locations of the 2x2 block whose upper left corner is (r, c).
Block(r, c) == {<<r, c>>, <<r, c + 1>>, <<r + 1, c>>, <<r + 1, c + 1>>}

\* g holds a 2x2 block of cells of the given age at (r, c) and nothing else.
IsBlockAt(g, r, c, age) ==
    /\ Block(r, c) \subseteq DOMAIN g.cell
    /\ \A p \in DOMAIN g.cell : g.cell[p] = IF p \in Block(r, c) THEN age ELSE 0

\* C11: when computeNext has finished on a colony that holds a 2x2 block of
\* cells of age 1 and no other alive cell, next holds the same block with
\* every cell of age 2 and no other alive cell.
C11_BlockStable ==
    pc = "assign" =>
        \A r \in 0..(current.rows - 2), c \in 0..(current.cols - 2) :
            IsBlockAt(current, r, c, 1) =>
                (Dims(next) = Dims(current) /\ IsBlockAt(next, r, c, 2))

\* C11 witness: computeNext has finished on a 3x3 colony whose block of age 1
\* lies in the lower right corner, with dead cells beside it.
C11_Witness ==
    /\ pc = "assign"
    /\ Dims(current) = <<3, 3>>
    /\ IsBlockAt(current, 1, 1, 1)
    /\ IsBlockAt(next, 1, 1, 2)

\* The locations of g that hold an alive cell.
Alive(g) == {p \in DOMAIN g.cell : g.cell[p] > 0}

\* C12: on a colony seeded with the glider at (1, 1), the alive cells after
\* exactly 4 generation steps are the glider at (2, 2), and every cell born
\* by a computeNext has age 1 in its output.
C12_GliderTranslation ==
    /\ (steps = 0 => Alive(current) = GliderAt(1, 1))
    /\ ((steps = 4 /\ pc \in {"repaint", "manual"}) => Alive(current) = GliderAt(2, 2))
    /\ (pc = "assign" =>
          \A p \in DOMAIN current.cell :
              (current.cell[p] = 0 /\ next.cell[p] > 0) => next.cell[p] = 1)

\* C12 witness: four steps have moved the glider to (2, 2); the cell born in
\* the fourth step has age 1 and the oldest cell has age 4.
C12_Witness ==
    /\ steps = 4
    /\ pc = "manual"
    /\ Alive(current) = GliderAt(2, 2)
    /\ \E p \in Alive(current) : current.cell[p] = 1
    /\ current.cell[<<4, 2>>] = 4

\* The timer loop of runAnimation: waiting for an event, or in a step it called.
InTimerLoop == pc = "wait" \/ (caller = "timer" /\ InAdvance)

\* C13: a step of the timer loop is never cut short: from inside advance the
\* driver only goes on through advance and returns to the loop after the
\* repaint, the loop is left only while it waits for an event, current is
\* replaced only by a completely computed generation, and when a run has
\* stopped current and the display hold the same complete generation.
C13_StepNeverInterrupted ==
    /\ [][(caller = "timer" /\ InAdvance) =>
            /\ pc' \in {"compute", "assign", "repaint", "wait"}
            /\ (pc' = "wait" => pc = "repaint")
            /\ (pc = "repaint" /\ pc' # pc => repaints' = repaints + 1)
            /\ UNCHANGED <<stops, timerOn>>]_vars
    /\ [][stops' # stops => pc \in {"wait", "manual"}]_vars
    /\ [][current' # current =>
            \/ pc = "start"
            \/ (pc = "assign" /\ next = Image(current) /\ current' = next)]_vars
    /\ [](pc \in {"restart", "done"} => drawn = current)

\* C13 witness: a step of the timer loop is about to repaint while a mouse
\* press waits at the head of the event queue.
C13_Witness ==
    /\ pc = "repaint"
    /\ caller = "timer"
    /\ queue # <<>>
    /\ Head(queue) = "MOUSE_PRESSED"
    /\ timerOn
    /\ stops = runs - 1

\* The timer loop keeps running: an event at the head of the queue is taken,
\* and a step that has begun is carried through its repaint.
FairSpec ==
    /\ Spec
    /\ WF_vars(TimerEvent)
    /\ WF_vars(MousePressed)
    /\ WF_vars(OtherEvent)
    /\ WF_vars(ComputeCell)
    /\ WF_vars(AssignCurrent)
    /\ WF_vars(Repaint)

\* A mouse press is queued and the timer loop has not yet taken it.
PressQueued == \E k \in 1..Len(queue) : queue[k] = "MOUSE_PRESSED"

\* The loop waits on a timer event that the bound on generation steps keeps
\* it from taking.
StepsExhausted ==
    /\ pc = "wait"
    /\ steps = MaxSteps
    /\ queue # <<>>
    /\ Head(queue) = "TIMER_TICKED"

\* C14: in the timer loop every dequeued event does exactly one thing: a timer
\* event begins exactly one step, a mouse press ends the loop and stops the
\* timer without a step, any other mouse event only leaves the queue; every
\* step of the loop answers one timer event; and a queued mouse press leads
\* to the loop being left with the timer stopped, unless the bound on
\* generation steps holds back a timer event queued ahead of the press.
C14_OneEffectPerEvent ==
    /\ [][(pc = "wait" /\ Len(queue') < Len(queue)) =>
            /\ queue' = Tail(queue)
            /\ (Head(queue) = "TIMER_TICKED" =>
                    /\ pc' \in {"compute", "assign"}
                    /\ caller' = "timer"
                    /\ signals' = signals + 1
                    /\ UNCHANGED <<current, drawn, repaints, steps, stops, timerOn, runs, ms>>)
            /\ (Head(queue) = "MOUSE_PRESSED" =>
                    /\ pc' = "restart"
                    /\ ~timerOn'
                    /\ stops' = stops + 1
                    /\ UNCHANGED <<current, next, drawn, repaints, steps, signals, runs, ms>>)
            /\ (Head(queue) \notin {"TIMER_TICKED", "MOUSE_PRESSED"} =>
                    UNCHANGED <<pc, caller, adv, current, next, i, j, drawn, repaints, steps,
                                signals, runs, stops, timerOn, ms, oob>>)]_vars
    /\ [][(caller' = "timer" /\ steps' # steps) =>
            (steps' = steps + 1 /\ signals = steps + 1 /\ signals' = signals)]_vars
    /\ [](pc = "wait" => (timerOn /\ signals = steps))
    /\ ((InTimerLoop /\ PressQueued) ~> ((pc = "restart" /\ ~timerOn) \/ StepsExhausted))

\* C14 witness: the loop has been left on a mouse press after at least one
\* timer step, the timer is stopped and an event is still queued.
C14_Witness ==
    /\ pc = "restart"
    /\ caller = "timer"
    /\ steps >= 1
    /\ steps < MaxSteps
    /\ ~timerOn
    /\ stops = runs
    /\ queue # <<>>

\* C15: while setSpeed asks for the cadence no generation is computed: no
\* step begins or ends, current, next and the display stay as initialization
\* left them, the driver stays in setSpeed or goes to the timer loop with a
\* running timer of 10, 100 or 1000 ms or to the manual loop with no timer,
\* and the colony shown while it asks is the initialized one.
C15_IdleComputesNothing ==
    /\ [][pc = "setSpeed" =>
            /\ UNCHANGED <<current, next, drawn, repaints, steps, signals, runs, stops>>
            /\ pc' \in {"setSpeed", "wait", "manual"}
            /\ (pc' = "setSpeed" => UNCHANGED <<ms, timerOn>>)
            /\ (pc' = "wait" => (timerOn' /\ ms' \in {10, 100, 1000}))
            /\ (pc' = "manual" => (~timerOn' /\ ms' = 0))]_vars
    /\ [][(pc \notin {"compute", "assign"} /\ pc' \in {"compute", "assign"}) =>
            pc \in {"wait", "manual"}]_vars
    /\ [](pc = "setSpeed" => (drawn = current /\ ~timerOn /\ ms = 0 /\ stops = runs - 1))

\* C15 witness: the cadence is asked for in a second run, after a step of the
\* first run has left a generation in next that differs from the new colony.
C15_Witness ==
    /\ pc = "setSpeed"
    /\ runs = 2
    /\ steps >= 1
    /\ Alive(current) # {}
    /\ next # current

(* ------------------------- computeNext on a scratch grid that was used *)

\* What next may hold when a second run begins: a generation computed in the
\* first run, of any dimensions.
StaleGrids == {Image(g) : g \in FileGrids(MaxRandCells)}

\* The manual loop of the second run, a line other than "quit": advance.
ScratchAdvance(line) ==
    /\ pc = "manual"
    /\ ~isQuit(line)
    /\ steps < ScratchSteps
    /\ adv' = line
    /\ CallAdvance("manual")
    /\ UNCHANGED queue

\* A first run has taken one manual step and was quit, restart was answered
\* "yes", a colony has been read from a file and choice 4 has been made; next
\* still holds what the first run left in it.
ScratchInit ==
    /\ pc = "manual"
    /\ caller = "manual"
    /\ adv = ""
    /\ current \in FileGrids(MaxRandCells)
    /\ next \in StaleGrids
    /\ i = 0
    /\ j = 0
    /\ drawn = current
    /\ repaints = 3
    /\ steps = 1
    /\ signals = 1
    /\ runs = 2
    /\ stops = 1
    /\ queue = <<>>
    /\ timerOn = FALSE
    /\ ms = 0
    /\ oob = FALSE

ScratchNext ==
    \/ \E line \in {""} : ScratchAdvance(line)
    \/ ComputeCell
    \/ AssignCurrent
    \/ Repaint

ScratchSpec == ScratchInit /\ [][ScratchNext]_vars

\* C16: whatever next held before the call, inside advance next has the
\* dimensions and cells of current, while computeNext runs every cell it has
\* passed holds the value computed from current and every other cell holds 0,
\* when it has finished every cell of next holds the value computed from
\* current, and no access falls outside a grid.
C16_NoStaleData ==
    /\ InAdvance => (Dims(next) = Dims(current) /\ DOMAIN next.cell = DOMAIN current.cell)
    /\ pc = "compute" =>
          \A p \in DOMAIN next.cell :
              next.cell[p] = IF Before(p, <<i, j>>) THEN NextCell(current, p[1], p[2]) ELSE 0
    /\ pc = "assign" =>
          \A p \in Cells(current.rows, current.cols) :
              /\ p \in DOMAIN next.cell
              /\ next.cell[p] = NextCell(current, p[1], p[2])
    /\ ~oob

\* C16 witness: the first computeNext of the second run has finished on a
\* colony of several cells in which a cell dies and a cell stays alive.
C16_Witness ==
    /\ pc = "assign"
    /\ runs = 2
    /\ steps = 1
    /\ current.rows * current.cols >= 3
    /\ \E p \in DOMAIN current.cell : current.cell[p] > 0 /\ next.cell[p] = 0
    /\ \E p \in DOMAIN current.cell : current.cell[p] > 0 /\ next.cell[p] > 0

====
